---- MODULE Spec2Model ----
(***************************************************************************)
(* State-machine model of src/main.py: the FEC extract-transform-load job  *)
(* refresh_fec_data (pagination loop, record filter, buffered inserts into *)
(* the staging table, promotion of staging into the final table after each *)
(* period) and of the loader insert_bq_rows.                               *)
(*                                                                         *)
(* Quantities of the source that are too large to enumerate are scaled     *)
(* down and named after the source: MAX_PAGES_PER_PERIOD (2000 in the      *)
(* source), BATCH_INSERT_SIZE (1000) and BQ_BATCH_SIZE (8000), keeping     *)
(* BATCH_INSERT_SIZE < BQ_BATCH_SIZE as in the source.  Amounts are in     *)
(* cents, dates in days relative to six_years_ago (day 0 is the cutoff).   *)
(***************************************************************************)
EXTENDS Integers, Sequences, FiniteSets, TLC

----------------------------------------------------------------------------
(* Bounds of the model *)

\* main.py:177 sets 2000; scaled down
MAX_PAGES_PER_PERIOD == 3
\* main.py:164 sets 1000; scaled down
BATCH_INSERT_SIZE == 2
\* main.py:42 sets 8000; scaled down, still above BATCH_INSERT_SIZE
BQ_BATCH_SIZE == 3
\* longest results array the API returns in one page
MaxResults == 2
\* most rows the filter accepts in one run
MaxRows == 3
\* longest row list handed to insert_bq_rows on its own
MaxLoad == 7
\* most rows in staging when promotion runs on its own
MaxStaged == 3
\* most rows in final when promotion runs on its own
MaxStale == 2

\* main.py:57: get_cycles returns three cycles
NumCycles == 3
\* main.py:241: amount floor, 125 dollars in cents
AMOUNT_FLOOR == 12500
\* main.py:233: the value of empty_pages that signals old data
OLD_DATA_SIGNAL == 999
\* main.py:213: empty pages that stop a period
EMPTY_PAGES_STOP == 2

----------------------------------------------------------------------------
(* Values *)

Min(a, b) == IF a < b THEN a ELSE b

\* A contribution record as received.  date_kind / amt_kind say whether the
\* field is absent (or null), present but not parsable, or parsable.
Rec(dk, d, ak, a, id) ==
    [date_kind |-> dk, date |-> d, amt_kind |-> ak, amt |-> a, id |-> id]

RecAccept1 == Rec("iso", 1, "num", 12501, 1)
RecAccept2 == Rec("iso", 0, "num", 20000, 2)
RecOld     == Rec("iso", -1, "num", 20000, 3)
RecLow     == Rec("iso", 1, "num", 12500, 4)
RecNoDate  == Rec("missing", 0, "num", 20000, 5)

\* the records the API serves to a run
Records == {RecAccept1, RecAccept2, RecOld, RecLow}

SeqsUpTo(S, n) == UNION {[1..k -> S] : k \in 0..n}

\* The pagination object of a response: a dict, as a set of <<key, value>>.
Paginations ==
    { {<<"pages", 2>>, <<"count", 7>>},
      {<<"pages", 9>>, <<"count", 7>>},
      {<<"count", 7>>},
      {<<"pages", 9>>} }

HasKey(d, k) == \E kv \in d : kv[1] = k

\* dict.get(k, default)
Get(d, k, default) ==
    IF HasKey(d, k) THEN (CHOOSE kv \in d : kv[1] = k)[2] ELSE default

Payloads ==
    {[results |-> rs, pagination |-> pg] :
        rs \in SeqsUpTo(Records, MaxResults), pg \in Paginations}

\* Content a table may hold from an earlier run
StaleRow == [ind_transaction_dt |-> 5, ind_transaction_amt |-> 30000, ind_tran_id |-> 0]

----------------------------------------------------------------------------
(* Record filter and mapper: main.py:219-279 *)

\* main.py:157: the cutoff date, day 0 of the model's calendar
six_years_ago == 0

\* main.py:231
IsOld(dt) == dt < six_years_ago

\* a floor that lets the floor amount through
AtOrBelowFloor_Strict(amt) == amt < AMOUNT_FLOOR

\* main.py:241
AtOrBelowFloor(amt) == amt <= AMOUNT_FLOOR

\* main.py:236: r.get("contribution_receipt_amount") or 0
AmountOf(r) == IF r.amt_kind = "missing" THEN 0 ELSE r.amt

\* main.py:220-242: "skip" (continue), "stop" (old data, break) or "row"
Filter(r) ==
    IF r.date_kind = "missing" THEN "skip"
    ELSE IF r.date_kind = "unparsable" THEN "skip"
    ELSE IF IsOld(r.date) THEN "stop"
    ELSE IF r.amt_kind = "non_numeric" THEN "skip"
    ELSE IF AtOrBelowFloor(AmountOf(r)) THEN "skip"
    ELSE "row"

\* main.py:263-279: the output row (the fields copied by name are carried by
\* the transaction id)
MapRow(r) ==
    [ind_transaction_dt |-> r.date,
     ind_transaction_amt |-> AmountOf(r),
     ind_tran_id |-> r.id]

\* rows of a results array that the filter accepts when met
Acceptable(rs) == Cardinality({i \in 1..Len(rs) : Filter(rs[i]) = "row"})

----------------------------------------------------------------------------
(* Loader: insert_bq_rows, main.py:129-141 *)

\* a slice one row short
Batch_Short(rows, i) == SubSeq(rows, i + 1, Min(i + BQ_BATCH_SIZE - 1, Len(rows)))

\* main.py:134: rows[i : i + BQ_BATCH_SIZE], i a 0-based offset
Batch(rows, i) == SubSeq(rows, i + 1, Min(i + BQ_BATCH_SIZE, Len(rows)))

\* main.py:133: the number of iterations of range(0, total, BQ_BATCH_SIZE)
NumChunks(rows) == (Len(rows) + BQ_BATCH_SIZE - 1) \div BQ_BATCH_SIZE

\* a loader that goes on with the next chunk after a commit reported errors
RECURSIVE InsertFrom_Continue(_, _, _, _, _)
InsertFrom_Continue(table, commits, rows, i, errAt) ==
    IF i >= Len(rows)
    THEN [table |-> table, commits |-> commits, raised |-> errAt # 0]
    ELSE IF errAt = (i \div BQ_BATCH_SIZE) + 1
         THEN InsertFrom_Continue(table, commits, rows, i + BQ_BATCH_SIZE, errAt)
         ELSE InsertFrom_Continue(table \o Batch(rows, i), Append(commits, Batch(rows, i)),
                                  rows, i + BQ_BATCH_SIZE, errAt)

\* main.py:133-141 from offset i on.  errAt is the number (from 1) of the
\* chunk whose commit reports row-level errors, 0 when none does.  Such a
\* commit inserts none of its rows (insert_rows_json is called without
\* skip_invalid_rows); the chunks committed before it stay.
RECURSIVE InsertFrom(_, _, _, _, _)
InsertFrom(table, commits, rows, i, errAt) ==
    IF i >= Len(rows)
    THEN [table |-> table, commits |-> commits, raised |-> FALSE]
    ELSE IF errAt = (i \div BQ_BATCH_SIZE) + 1
         THEN [table |-> table, commits |-> commits, raised |-> TRUE]
         ELSE InsertFrom(table \o Batch(rows, i), Append(commits, Batch(rows, i)),
                         rows, i + BQ_BATCH_SIZE, errAt)

\* main.py:129-141
insert_bq_rows(table, rows, errAt) == InsertFrom(table, <<>>, rows, 0, errAt)

----------------------------------------------------------------------------
(* State *)

VARIABLES
    pc,                     \* position in refresh_fec_data
    period,                 \* index in cycles of the current period, 0 before the first
    page,                   \* main.py:175
    empty_pages,            \* main.py:176
    data,                   \* the response being processed
    idx,                    \* position of the for loop of main.py:219 in results
    batch_buffer,           \* main.py:163
    total_rows_inserted,    \* main.py:165
    total_rows_collected,   \* main.py:166
    seen_transaction_ids,   \* main.py:167
    staging,                \* content of STAGING_TABLE
    final,                  \* content of FINAL_TABLE
    status,                 \* what refresh_fec_data returned
    accepted,               \* history: rows the filter accepted, in order
    log,                    \* history: the last two fetches of the current period
    ok_tail,                \* history: the last two pages of the current period fetched
                            \* successfully, each "empty" or "data"
    old_met,                \* history: the loop met a record older than the cutoff in
                            \* the current period
    last_page,              \* history: "reached" once a processed page of the current
                            \* period had a number >= the reported page count,
                            \* "no_pages" when its response reported none, "" before
    load_error,             \* history: a commit to staging reported row-level errors
    calls_ok,               \* history: every call of insert_bq_rows so far carried at most
                            \* BATCH_INSERT_SIZE rows, fewer than BQ_BATCH_SIZE, and
                            \* made one commit unless that commit reported errors
    snapshot,               \* history: staging as of the last promotion
    promoted,               \* history: number of promotions completed
    first_failure,          \* history: the first period in which a fetch failed, 0 if none
    ld_rows,                \* loader on its own: the row list
    ld_pc,                  \* loader on its own: "idle", "call", "returned" or "raised"
    ld_err,                 \* loader on its own: the chunk whose commit reported errors, 0 if none
    ld_out,                 \* loader on its own: the result of the call
    f_pc,                   \* fetch_fec_page on its own: "idle", "request", "returned" or "raised"
    attempt,                \* main.py:81
    rate_limit_wait,        \* main.py:79, in sixteenths of a second
    f_error,                \* the exception fetch_fec_page raised, "" if none
    f_requests,             \* history: requests issued by the call
    f_429,                  \* history: 429 responses received by the call
    f_last,                 \* history: the last response with its attempt and the wait after it
    f_total,                \* history: time slept by the call, in sixteenths of a second
    fl_pc,                  \* filter on its own: "idle", "call" or "done"
    fl_rec,                 \* filter on its own: the record
    fl_out,                 \* filter on its own: the verdict and the rows put out
    pr_pc,                  \* promotion on its own: "idle", "truncate", "copy" or "done"
    pr_runs,                \* promotion on its own: promotions completed
    pr_staging0,            \* promotion on its own: staging at the start
    pr_staging,             \* promotion on its own: staging
    pr_final,               \* promotion on its own: final
    pr_first                \* promotion on its own: final after the first promotion

locals == <<period, page, empty_pages, data, idx, batch_buffer>>
counters == <<total_rows_inserted, total_rows_collected, seen_transaction_ids>>
tables == <<staging, final>>
fetchHist == <<log, ok_tail, old_met, last_page>>
runHist == <<accepted, load_error, calls_ok, snapshot, promoted, first_failure>>
runVars == <<pc, locals, counters, tables, status, fetchHist, runHist>>
ldVars == <<ld_rows, ld_pc, ld_err, ld_out>>
fVars == <<f_pc, attempt, rate_limit_wait, f_error, f_requests, f_429, f_last, f_total>>
flVars == <<fl_pc, fl_rec, fl_out>>
prVars == <<pr_pc, pr_runs, pr_staging0, pr_staging, pr_final, pr_first>>
sideVars == <<ldVars, fVars, flVars, prVars>>

vars == <<runVars, sideVars>>

NoData == [results |-> <<>>, pagination |-> {}]
NoOut == [table |-> <<>>, commits |-> <<>>, raised |-> FALSE]
NoStatus == <<"", 0>>

\* The state when refresh_fec_data is entered; the tables hold whatever an
\* earlier run left in them.
InitRun ==
    /\ pc = "start"
    /\ period = 0
    /\ page = 0
    /\ empty_pages = 0
    /\ data = NoData
    /\ idx = 0
    /\ batch_buffer = <<>>
    /\ total_rows_inserted = 0
    /\ total_rows_collected = 0
    /\ seen_transaction_ids = {}
    /\ staging \in {<<>>, <<StaleRow>>}
    /\ final \in {<<>>, <<StaleRow>>}
    /\ status = NoStatus
    /\ accepted = <<>>
    /\ log = <<>>
    /\ ok_tail = <<>>
    /\ old_met = FALSE
    /\ last_page = ""
    /\ load_error = FALSE
    /\ calls_ok = TRUE
    /\ snapshot = <<>>
    /\ promoted = 0
    /\ first_failure = 0

NoRecord == [date_kind |-> "missing", date |-> 0, amt_kind |-> "missing", amt |-> 0, id |-> 0]
NoVerdict == [verdict |-> "", rows |-> <<>>]
NoResponse == [attempt |-> 0, resp |-> "", wait |-> 0]

\* no call of insert_bq_rows on its own
IdleLoader ==
    /\ ld_rows = <<>>
    /\ ld_pc = "idle"
    /\ ld_err = 0
    /\ ld_out = NoOut

\* no call of fetch_fec_page on its own
IdleFetch ==
    /\ f_pc = "idle"
    /\ attempt = 0
    /\ rate_limit_wait = 0
    /\ f_error = ""
    /\ f_requests = 0
    /\ f_429 = 0
    /\ f_last = NoResponse
    /\ f_total = 0

\* no record given to the filter on its own
IdleFilter ==
    /\ fl_pc = "idle"
    /\ fl_rec = NoRecord
    /\ fl_out = NoVerdict

\* no promotion on its own
IdlePromote ==
    /\ pr_pc = "idle"
    /\ pr_runs = 0
    /\ pr_staging0 = <<>>
    /\ pr_staging = <<>>
    /\ pr_final = <<>>
    /\ pr_first = <<>>

Init ==
    /\ InitRun
    /\ IdleLoader
    /\ IdleFetch
    /\ IdleFilter
    /\ IdlePromote

----------------------------------------------------------------------------
(* Decisions of refresh_fec_data, main.py:148-347 *)

\* a truncation that keeps the rows
Truncate_Keeps(table) == table

\* main.py:153, 154, 311: TRUNCATE TABLE
Truncate(table) == <<>>

\* main.py:312: INSERT INTO final SELECT * FROM staging
CopyInto(fin, stg) == fin \o stg

\* the cap checked one page late
SafetyStop_Late(p) == p > MAX_PAGES_PER_PERIOD + 1

\* main.py:181
SafetyStop(p) == p > MAX_PAGES_PER_PERIOD

\* the failed page is asked for again
PageAfterFailure_Same(p) == p

\* main.py:192 and 198: the page to fetch after a failed fetch of page p
PageAfterFailure(p) == p + 1

\* a failed fetch that resets the empty-page counter
EmptyPagesAfterFailure_Reset(ep) == 0

\* main.py:189-200: neither handler touches empty_pages
EmptyPagesAfterFailure(ep) == ep

\* main.py:211-217: the counter after a page with these results
EmptyPagesAfter(ep, results) == IF results = <<>> THEN ep + 1 ELSE 0

\* one empty page more is tolerated
EmptyStop_Late(ep) == ep > EMPTY_PAGES_STOP

\* main.py:213
EmptyStop(ep) == ep >= EMPTY_PAGES_STOP

\* the signal value itself does not stop the period
OldDataStop_Strict(ep) == ep > OLD_DATA_SIGNAL

\* main.py:290
OldDataStop(ep) == ep >= OLD_DATA_SIGNAL

\* the last page is passed by one
LastPage_Strict(p, d) == p > Get(d.pagination, "pages", 0)

\* main.py:294-295
LastPage(p, d) == p >= Get(d.pagination, "pages", 0)

\* a flush one row late
BufferFull_Late(buf) == Len(buf) > BATCH_INSERT_SIZE

\* main.py:282
BufferFull(buf) == Len(buf) >= BATCH_INSERT_SIZE

\* main.py:203-207: formatting the default "?" of a missing count with ","
\* raises ValueError
ReportFails(p, d) == p = 1 /\ ~HasKey(d.pagination, "count")

\* main.py:252-253
SeenAfter(seen, r) == IF r.id # 0 THEN seen \cup {r.id} ELSE seen

\* the error of the loader is swallowed
AfterInsert_Swallowed(raised, goOn) == goOn

\* main.py:284, 305, 320: no handler surrounds the call of insert_bq_rows, so
\* its RuntimeError leaves refresh_fec_data; otherwise control goes on
AfterInsert(raised, goOn) == IF raised THEN "failed" ELSE goOn

\* the buffer is not emptied
Flushed_Kept(buf) == buf

\* main.py:286, 307, 322: the buffer after its rows were inserted
Flushed(buf) == <<>>

\* main.py:284, 305, 320 with main.py:133-135: the call carries at most
\* BATCH_INSERT_SIZE rows, fewer than BQ_BATCH_SIZE, and makes one commit
\* unless that commit reports errors
CallInLimit(rows, out) ==
    /\ Len(rows) <= BATCH_INSERT_SIZE
    /\ Len(rows) < BQ_BATCH_SIZE
    /\ NumChunks(rows) = 1
    /\ ~out.raised => Len(out.commits) = 1

\* the last two entries of a history
LastTwo(s) == IF Len(s) <= 2 THEN s ELSE SubSeq(s, Len(s) - 1, Len(s))

Kind(results) == IF results = <<>> THEN "empty" ELSE "data"

----------------------------------------------------------------------------
(* refresh_fec_data, main.py:148-347 *)

\* main.py:153
ClearStaging ==
    /\ pc = "start"
    /\ staging' = Truncate(staging)
    /\ pc' = "clear_final"
    /\ UNCHANGED <<locals, counters, final, status, fetchHist, runHist, sideVars>>

\* main.py:154-167
ClearFinal ==
    /\ pc = "clear_final"
    /\ final' = Truncate(final)
    /\ batch_buffer' = <<>>
    /\ total_rows_inserted' = 0
    /\ total_rows_collected' = 0
    /\ seen_transaction_ids' = {}
    /\ pc' = "for"
    /\ UNCHANGED <<period, page, empty_pages, data, idx, staging, status,
                   fetchHist, runHist, sideVars>>

\* main.py:172-177: the next period starts
PeriodStart ==
    /\ pc = "for"
    /\ period < NumCycles
    /\ period' = period + 1
    /\ page' = 1
    /\ empty_pages' = 0
    /\ log' = <<>>
    /\ ok_tail' = <<>>
    /\ old_met' = FALSE
    /\ last_page' = ""
    /\ pc' = "while"
    /\ UNCHANGED <<data, idx, batch_buffer, counters, tables, status, runHist,
                   sideVars>>

\* main.py:181-183
SafetyCap ==
    /\ pc = "while"
    /\ SafetyStop(page)
    /\ pc' = "flush"
    /\ UNCHANGED <<locals, counters, tables, status, fetchHist, runHist, sideVars>>

\* main.py:187-200: fetch_fec_page raises, RuntimeError (retries exhausted)
\* or any other exception (an HTTP error among them); the two handlers do
\* the same
FetchFail ==
    /\ pc = "while"
    /\ ~SafetyStop(page)
    /\ page' = PageAfterFailure(page)
    /\ pc' = "while"
    /\ log' = LastTwo(Append(log, [page |-> page, out |-> "fail"]))
    /\ first_failure' = IF first_failure = 0 THEN period ELSE first_failure
    /\ empty_pages' = EmptyPagesAfterFailure(empty_pages)
    /\ UNCHANGED <<period, data, idx, batch_buffer, counters,
                   tables, status, ok_tail, old_met, last_page, accepted,
                   load_error, calls_ok, snapshot, promoted, sideVars>>

\* main.py:187-217: fetch_fec_page returns d
FetchOk ==
    /\ pc = "while"
    /\ ~SafetyStop(page)
    /\ \E d \in Payloads :
        /\ Len(accepted) + Acceptable(d.results) <= MaxRows
        /\ data' = d
        /\ log' = LastTwo(Append(log, [page |-> page, out |-> Kind(d.results)]))
        /\ IF ReportFails(page, d)
           THEN /\ pc' = "crashed"
                /\ UNCHANGED <<empty_pages, idx, ok_tail>>
           ELSE /\ empty_pages' = EmptyPagesAfter(empty_pages, d.results)
                /\ ok_tail' = LastTwo(Append(ok_tail, Kind(d.results)))
                /\ idx' = 1
                /\ pc' = IF d.results = <<>>
                         THEN (IF EmptyStop(empty_pages') THEN "flush" ELSE "after")
                         ELSE "records"
    /\ UNCHANGED <<period, page, batch_buffer, counters, tables, status,
                   old_met, last_page, runHist, sideVars>>

\* main.py:219-287: one iteration of the for loop over results
ProcessRecord ==
    /\ pc = "records"
    /\ LET r == data.results[idx]
           goOn == IF idx = Len(data.results) THEN "after" ELSE "records"
           buf == Append(batch_buffer, MapRow(r))
       IN
       /\ old_met' = (old_met \/ (r.date_kind = "iso" /\ r.date < six_years_ago))
       /\ IF Filter(r) = "skip"
          THEN /\ idx' = idx + 1
               /\ pc' = goOn
               /\ UNCHANGED <<empty_pages, batch_buffer, counters, staging,
                              accepted, load_error, calls_ok>>
          ELSE IF Filter(r) = "stop"
          THEN /\ empty_pages' = OLD_DATA_SIGNAL
               /\ pc' = "after"
               /\ UNCHANGED <<idx, batch_buffer, counters, staging, accepted,
                              load_error, calls_ok>>
          ELSE /\ seen_transaction_ids' = SeenAfter(seen_transaction_ids, r)
               /\ total_rows_collected' = total_rows_collected + 1
               /\ accepted' = Append(accepted, MapRow(r))
               /\ UNCHANGED empty_pages
               /\ IF BufferFull(buf)
                  THEN \E errAt \in 0..NumChunks(buf) :
                          LET out == insert_bq_rows(staging, buf, errAt) IN
                          /\ staging' = out.table
                          /\ load_error' = (load_error \/ out.raised)
                          /\ calls_ok' = (calls_ok /\ CallInLimit(buf, out))
                          /\ pc' = AfterInsert(out.raised, goOn)
                          /\ IF out.raised
                             THEN /\ batch_buffer' = buf
                                  /\ UNCHANGED <<idx, total_rows_inserted>>
                             ELSE /\ total_rows_inserted' =
                                         total_rows_inserted + Len(buf)
                                  /\ batch_buffer' = Flushed(buf)
                                  /\ idx' = idx + 1
                  ELSE /\ batch_buffer' = buf
                       /\ idx' = idx + 1
                       /\ pc' = goOn
                       /\ UNCHANGED <<staging, total_rows_inserted, load_error, calls_ok>>
    /\ UNCHANGED <<period, page, data, final, status, log, ok_tail, last_page,
                   snapshot, promoted, first_failure, sideVars>>

\* main.py:289-300: after the for loop
AfterPage ==
    /\ pc = "after"
    /\ IF OldDataStop(empty_pages) \/ LastPage(page, data)
       THEN /\ pc' = "flush"
            /\ page' = page
       ELSE /\ pc' = "while"
            /\ page' = page + 1
    /\ last_page' = IF ~HasKey(data.pagination, "pages") THEN "no_pages"
                    ELSE IF \E kv \in data.pagination :
                                kv[1] = "pages" /\ page >= kv[2]
                         THEN "reached"
                         ELSE last_page
    /\ data' = NoData
    /\ idx' = 0
    /\ UNCHANGED <<period, empty_pages, batch_buffer, counters, tables, status,
                   log, ok_tail, old_met, runHist, sideVars>>

\* main.py:303-307: flush the buffer at the end of the period
FlushPeriod ==
    /\ pc = "flush"
    /\ IF batch_buffer # <<>>
       THEN \E errAt \in 0..NumChunks(batch_buffer) :
               LET out == insert_bq_rows(staging, batch_buffer, errAt) IN
               /\ staging' = out.table
               /\ load_error' = (load_error \/ out.raised)
               /\ calls_ok' = (calls_ok /\ CallInLimit(batch_buffer, out))
               /\ pc' = AfterInsert(out.raised, "truncate_final")
               /\ IF out.raised
                  THEN UNCHANGED <<batch_buffer, total_rows_inserted>>
                  ELSE /\ total_rows_inserted' =
                              total_rows_inserted + Len(batch_buffer)
                       /\ batch_buffer' = Flushed(batch_buffer)
       ELSE /\ pc' = "truncate_final"
            /\ UNCHANGED <<staging, batch_buffer, total_rows_inserted, load_error, calls_ok>>
    /\ data' = NoData
    /\ idx' = 0
    /\ UNCHANGED <<period, page, empty_pages, total_rows_collected,
                   seen_transaction_ids, final, status, fetchHist, accepted,
                   snapshot, promoted, first_failure, sideVars>>

\* main.py:311: TRUNCATE TABLE final
PromoteTruncate ==
    /\ pc = "truncate_final"
    /\ final' = Truncate(final)
    /\ pc' = "copy_final"
    /\ UNCHANGED <<locals, counters, staging, status, fetchHist, runHist, sideVars>>

\* main.py:312-313: INSERT INTO final SELECT * FROM staging
PromoteCopy ==
    /\ pc = "copy_final"
    /\ final' = CopyInto(final, staging)
    /\ snapshot' = staging
    /\ promoted' = promoted + 1
    /\ pc' = "for"
    /\ UNCHANGED <<locals, counters, staging, status, fetchHist, accepted,
                   load_error, calls_ok, first_failure, sideVars>>

\* main.py:318-347: after the last period
Finish ==
    /\ pc = "for"
    /\ period = NumCycles
    /\ IF batch_buffer # <<>>
       THEN \E errAt \in 0..NumChunks(batch_buffer) :
               LET out == insert_bq_rows(staging, batch_buffer, errAt) IN
               /\ staging' = out.table
               /\ load_error' = (load_error \/ out.raised)
               /\ calls_ok' = (calls_ok /\ CallInLimit(batch_buffer, out))
               /\ pc' = AfterInsert(out.raised, "done")
               /\ IF out.raised
                  THEN UNCHANGED <<batch_buffer, total_rows_inserted, status>>
                  ELSE /\ total_rows_inserted' =
                              total_rows_inserted + Len(batch_buffer)
                       /\ batch_buffer' = Flushed(batch_buffer)
                       /\ status' = <<"OK", 200>>
       ELSE /\ status' = IF total_rows_inserted = 0
                         THEN <<"No data collected", 200>>
                         ELSE <<"OK", 200>>
            /\ pc' = "done"
            /\ UNCHANGED <<staging, batch_buffer, total_rows_inserted, load_error, calls_ok>>
    /\ UNCHANGED <<period, page, empty_pages, data, idx, total_rows_collected,
                   seen_transaction_ids, final, fetchHist, accepted, snapshot,
                   promoted, first_failure, sideVars>>

Next ==
    \/ ClearStaging
    \/ ClearFinal
    \/ PeriodStart
    \/ SafetyCap
    \/ FetchFail
    \/ FetchOk
    \/ ProcessRecord
    \/ AfterPage
    \/ FlushPeriod
    \/ PromoteTruncate
    \/ PromoteCopy
    \/ Finish

Spec == Init /\ [][Next]_vars

----------------------------------------------------------------------------
(* insert_bq_rows on its own, main.py:129-141 *)

\* rows handed to the loader
LoadRows == {MapRow(RecAccept1), MapRow(RecAccept2)}

InitLoader ==
    /\ InitRun
    /\ staging = <<>>
    /\ final = <<>>
    /\ ld_rows \in SeqsUpTo(LoadRows, MaxLoad)
    /\ ld_pc = "call"
    /\ ld_err = 0
    /\ ld_out = NoOut
    /\ IdleFetch
    /\ IdleFilter
    /\ IdlePromote

\* one call insert_bq_rows(table, ld_rows) on an empty table
LoaderCall ==
    /\ ld_pc = "call"
    /\ \E errAt \in 0..NumChunks(ld_rows) :
          /\ ld_out' = insert_bq_rows(<<>>, ld_rows, errAt)
          /\ ld_err' = errAt
          /\ ld_pc' = IF ld_out'.raised THEN "raised" ELSE "returned"
    /\ UNCHANGED <<runVars, ld_rows, fVars, flVars, prVars>>

NextLoader == LoaderCall

SpecLoader == InitLoader /\ [][NextLoader]_vars

----------------------------------------------------------------------------
(* fetch_fec_page on its own, main.py:63-123 *)

\* main.py:63: the default of the parameter retries; no caller passes another
retries == 10

\* n seconds in the model's unit of time, a sixteenth of a second, in which
\* every wait of main.py:79-96 below the 300 second cap is a whole number
Secs(n) == 16 * n

\* what one request can end in: a status code, or an exception raised
\* before a status was received
HttpErrorStatuses == {"429", "500", "502", "503", "400", "404"}
TransportErrors == {"ReadTimeout", "ConnectionError"}

\* a rate-limit wait that doubles
RateLimitNext_Double(w) == Min(w * 2, Secs(300))

\* main.py:95: min(rate_limit_wait * 1.5, 300)
RateLimitNext(w) == Min((w * 3) \div 2, Secs(300))

\* main.py:92
IsRateLimit(st) == st = "429"

\* any error status taken as a server error
IsServerError_Any(st) == TRUE

\* main.py:99
IsServerError(st) == st \in {"500", "502", "503"}

\* a ceiling one attempt late
MoreAttempts_Late(a) == a <= retries

\* main.py:81, 101, 113: attempt < retries, also whether range(1, retries + 1)
\* has an attempt after a
MoreAttempts(a) == a < retries

\* a server-error wait that does not grow
ServerWait_Flat(a) == Secs(5)

\* main.py:102
ServerWait(a) == Secs(5 * a)

\* main.py:114
TransportWait(a) == Secs(2 ^ a)

InitFetch ==
    /\ InitRun
    /\ staging = <<>>
    /\ final = <<>>
    /\ IdleLoader
    /\ IdleFilter
    /\ IdlePromote
    /\ f_pc = "request"
    /\ attempt = 1
    /\ rate_limit_wait = Secs(30)
    /\ f_error = ""
    /\ f_requests = 0
    /\ f_429 = 0
    /\ f_last = NoResponse
    /\ f_total = 0

\* main.py:81 after a continue: the next attempt, or main.py:123 when the
\* loop is exhausted
Continue ==
    IF MoreAttempts(attempt)
    THEN /\ attempt' = attempt + 1
         /\ f_pc' = "request"
         /\ f_error' = ""
    ELSE /\ attempt' = attempt
         /\ f_pc' = "raised"
         /\ f_error' = "RuntimeError"

\* main.py:109, 121: the exception leaves the function
Raise(e) ==
    /\ attempt' = attempt
    /\ f_pc' = "raised"
    /\ f_error' = e

\* the request of this attempt ended in resp and was followed by a sleep of w
Record(resp, w) ==
    /\ f_requests' = f_requests + 1
    /\ f_last' = [attempt |-> attempt, resp |-> resp, wait |-> w]
    /\ f_total' = f_total + w

\* main.py:83-89: the request succeeds, the payload is returned
Request200 ==
    /\ f_pc = "request"
    /\ Record("200", 0)
    /\ f_pc' = "returned"
    /\ UNCHANGED <<runVars, ldVars, flVars, prVars, attempt, rate_limit_wait, f_error, f_429>>

\* main.py:83-88, 91-109: raise_for_status raises HTTPError
RequestHTTPError ==
    /\ f_pc = "request"
    /\ \E st \in HttpErrorStatuses :
          IF IsRateLimit(st)
          THEN /\ Record(st, rate_limit_wait)
               /\ rate_limit_wait' = RateLimitNext(rate_limit_wait)
               /\ f_429' = f_429 + 1
               /\ Continue
          ELSE IF IsServerError(st) /\ MoreAttempts(attempt)
          THEN /\ Record(st, ServerWait(attempt))
               /\ Continue
               /\ UNCHANGED <<rate_limit_wait, f_429>>
          ELSE /\ Record(st, 0)
               /\ Raise("HTTPError")
               /\ UNCHANGED <<rate_limit_wait, f_429>>
    /\ UNCHANGED <<runVars, ldVars, flVars, prVars>>

\* main.py:83-87, 111-117: the request times out or the connection fails
RequestTransportError ==
    /\ f_pc = "request"
    /\ \E e \in TransportErrors :
          Record(e, IF MoreAttempts(attempt) THEN TransportWait(attempt) ELSE 0)
    /\ Continue
    /\ UNCHANGED <<runVars, ldVars, flVars, prVars, rate_limit_wait, f_429>>

\* main.py:83-89, 119-121: any other exception
RequestException ==
    /\ f_pc = "request"
    /\ Record("Exception", 0)
    /\ Raise("Exception")
    /\ UNCHANGED <<runVars, ldVars, flVars, prVars, rate_limit_wait, f_429>>

NextFetch ==
    \/ Request200
    \/ RequestHTTPError
    \/ RequestTransportError
    \/ RequestException

SpecFetch == InitFetch /\ [][NextFetch]_vars

----------------------------------------------------------------------------
(* The record filter on its own, main.py:219-279 *)

\* dates around the cutoff, amounts around the floor
FilterDates == {-2, -1, 0, 1}
FilterAmounts == {-500, 0, 12499, 12500, 12501, 20000}

\* the records given to the filter: every combination of a missing, an
\* unparsable or a parsed date with a missing, a non-numeric or a numeric
\* amount
FilterRecords ==
    {Rec(dk, 0, ak, 0, id) :
        dk \in {"missing", "unparsable"}, ak \in {"missing", "non_numeric"}, id \in {1, 2}}
    \cup {Rec(dk, 0, "num", a, id) :
        dk \in {"missing", "unparsable"}, a \in FilterAmounts, id \in {1, 2}}
    \cup {Rec("iso", d, ak, 0, id) :
        d \in FilterDates, ak \in {"missing", "non_numeric"}, id \in {1, 2}}
    \cup {Rec("iso", d, "num", a, id) :
        d \in FilterDates, a \in FilterAmounts, id \in {1, 2}}

InitFilter ==
    /\ InitRun
    /\ staging = <<>>
    /\ final = <<>>
    /\ IdleLoader
    /\ IdleFetch
    /\ IdlePromote
    /\ fl_pc = "call"
    /\ fl_rec \in FilterRecords
    /\ fl_out = NoVerdict

\* main.py:219-279 for one record: the verdict, and the row appended to
\* batch_buffer when the record is accepted
FilterCall ==
    /\ fl_pc = "call"
    /\ fl_out' = [verdict |-> Filter(fl_rec),
                  rows |-> IF Filter(fl_rec) = "row" THEN <<MapRow(fl_rec)>> ELSE <<>>]
    /\ fl_pc' = "done"
    /\ UNCHANGED <<runVars, ldVars, fVars, prVars, fl_rec>>

NextFilter == FilterCall

SpecFilter == InitFilter /\ [][NextFilter]_vars

----------------------------------------------------------------------------
(* Promotion on its own, run twice in a row: main.py:309-312 *)

\* promotions run in a row
PromotionRuns == 2

InitPromote ==
    /\ InitRun
    /\ staging = <<>>
    /\ final = <<>>
    /\ IdleLoader
    /\ IdleFetch
    /\ IdleFilter
    /\ pr_pc = "truncate"
    /\ pr_runs = 0
    /\ pr_staging0 \in SeqsUpTo(LoadRows, MaxStaged)
    /\ pr_staging = pr_staging0
    /\ pr_final \in SeqsUpTo(LoadRows \cup {StaleRow}, MaxStale)
    /\ pr_first = <<>>

\* main.py:311
PromotionTruncate ==
    /\ pr_pc = "truncate"
    /\ pr_final' = Truncate(pr_final)
    /\ pr_pc' = "copy"
    /\ UNCHANGED <<runVars, ldVars, fVars, flVars, pr_runs, pr_staging0, pr_staging, pr_first>>

\* main.py:312
PromotionCopy ==
    /\ pr_pc = "copy"
    /\ pr_final' = CopyInto(pr_final, pr_staging)
    /\ pr_runs' = pr_runs + 1
    /\ pr_first' = IF pr_runs = 0 THEN pr_final' ELSE pr_first
    /\ pr_pc' = IF pr_runs' < PromotionRuns THEN "truncate" ELSE "done"
    /\ UNCHANGED <<runVars, ldVars, fVars, flVars, pr_staging0, pr_staging>>

NextPromote ==
    \/ PromotionTruncate
    \/ PromotionCopy

SpecPromote == InitPromote /\ [][NextPromote]_vars

----------------------------------------------------------------------------
(* Properties *)

Last(s) == s[Len(s)]

\* every element of s occurs in t
AllIn(s, t) == \A i \in 1..Len(s) : \E j \in 1..Len(t) : t[j] = s[i]

RECURSIVE Flatten(_)
Flatten(ss) == IF ss = <<>> THEN <<>> ELSE Head(ss) \o Flatten(Tail(ss))

\* the least k with k * m >= n
CeilDiv(n, m) == CHOOSE k \in 0..n : k * m >= n /\ (k = 0 \/ (k - 1) * m < n)

\* the number of "empty" entries that end a history of at most two entries
TrailingEmpty(t) ==
    IF t = <<>> \/ Last(t) # "empty" THEN 0
    ELSE IF Len(t) = 2 /\ t[1] = "empty" THEN 2
    ELSE 1

\* the step is a failed fetch
FetchFailureStep == log' # log /\ log' # <<>> /\ Last(log').out = "fail"

\* C1: a failed fetch of page p leaves the run in the pagination loop of the
\* same period with page p + 1 and aborts nothing; while p + 1 is within the
\* safety cap the next step is the fetch of page p + 1; every period that
\* ends is promoted, so a run that returns has promoted all its periods.
C1_FetchFailureSkipsPage ==
    /\ [][FetchFailureStep =>
            /\ Last(log').page = page
            /\ page' = page + 1
            /\ pc' = "while"
            /\ period' = period
            /\ promoted' = promoted
            /\ status' = status]_vars
    /\ [][(pc = "while" /\ log # <<>> /\ Last(log).out = "fail"
              /\ page <= MAX_PAGES_PER_PERIOD) =>
            /\ log' # log
            /\ Last(log').page = page
            /\ period' = period]_vars
    /\ [](pc \in {"for", "done"} => promoted = period)
    /\ [](pc = "done" => promoted = NumCycles)

\* C1 witness: a fetch failed in an earlier period, and in a later period the
\* page after a failed one was fetched and returned records
C1_Witness ==
    /\ first_failure >= 1
    /\ period > first_failure
    /\ Len(log) = 2
    /\ log[1].out = "fail"
    /\ log[2].out = "data"
    /\ log[2].page = log[1].page + 1
    /\ pc = "records"

\* C2: once the loop has met a record dated before the cutoff, nothing more
\* of that period is accepted, nothing is added to the buffer or to staging
\* beyond what they held together, final only receives a copy of staging, and
\* no page of that period is fetched.
C2_OldDataStopsPeriod ==
    [][(old_met /\ period' = period) =>
          /\ accepted' = accepted
          /\ log' = log
          /\ staging' \o batch_buffer' = staging \o batch_buffer
          /\ final' \in {final, <<>>, staging}]_vars

\* C2 witness: the old record was met before the end of its page, the record
\* after it passes the filter and the response reports further pages
C2_Witness ==
    /\ pc = "after"
    /\ old_met
    /\ idx < Len(data.results)
    /\ Filter(data.results[idx + 1]) = "row"
    /\ page < Get(data.pagination, "pages", 0)
    /\ page < MAX_PAGES_PER_PERIOD

\* C3: while the pagination loop of a period goes on, its last two pages
\* fetched successfully are not both empty; and the counter of empty pages is
\* the number of empty pages since the last non-empty one.
C3_TwoEmptyPagesStop ==
    /\ pc \in {"while", "records", "after"} => ok_tail # <<"empty", "empty">>
    /\ (period >= 1 /\ pc # "crashed" /\ empty_pages # OLD_DATA_SIGNAL)
          => empty_pages = TrailingEmpty(ok_tail)

\* C3 witness: the period stopped on its second consecutive empty page
C3_Witness ==
    /\ pc = "flush"
    /\ ok_tail = <<"empty", "empty">>
    /\ empty_pages = 2
    /\ page <= MAX_PAGES_PER_PERIOD

\* C4: once a commit to staging has reported row-level errors the run has
\* raised and returned no status, and nothing happens after it: no fetch, no
\* commit, no promotion, no status.
C4_LoadErrorIsFatal ==
    /\ [](load_error => (pc = "failed" /\ status = NoStatus))
    /\ [][load_error =>
            /\ pc' = pc
            /\ log' = log
            /\ staging' = staging
            /\ final' = final
            /\ promoted' = promoted
            /\ status' = status]_vars

\* C4 witness: the load error of a later period, after a promotion
C4_Witness ==
    /\ load_error
    /\ pc = "failed"
    /\ promoted >= 1
    /\ final # <<>>
    /\ batch_buffer # <<>>

\* C5: after the truncation at the start of the run, final is staging as of
\* the last promotion (empty before the first one).
C5_FinalIsLastSnapshot ==
    pc \notin {"start", "clear_final"} => final = snapshot

\* C6: once a promotion has completed, every row it promoted is in final.
C6_PromotedRowsStayInFinal ==
    promoted >= 1 => AllIn(snapshot, final)

\* C7: buffer and staging together hold the accepted rows, once each and in
\* the order of acceptance, all through the run; right after a promotion and
\* when the run returns, the buffer is empty and staging and final both hold
\* exactly the accepted rows.
C7_NoLossNoDuplication ==
    /\ pc \notin {"start", "clear_final"} => staging \o batch_buffer = accepted
    /\ ((pc = "for" /\ promoted >= 1) \/ pc = "done") =>
          /\ batch_buffer = <<>>
          /\ staging = accepted
          /\ final = accepted

\* C7 witness: a run that returned after a failed fetch in its first period,
\* with as many accepted rows as the model serves, both kinds among them
C7_Witness ==
    /\ pc = "done"
    /\ first_failure = 1
    /\ Len(accepted) = MaxRows
    /\ \E i, j \in 1..Len(accepted) : accepted[i] # accepted[j]
    /\ total_rows_inserted = MaxRows

\* C8: a call of the loader that raises nothing makes ceil(n / BQ_BATCH_SIZE)
\* commits, none empty and none above BQ_BATCH_SIZE rows, BQ_BATCH_SIZE + 1
\* rows giving one commit of BQ_BATCH_SIZE rows and one of 1, and the commits
\* put end to end are the row list, as is the table.
C8_LoaderChunks ==
    ld_pc = "returned" =>
        LET n == Len(ld_rows)
            c == ld_out.commits
        IN /\ Len(c) = CeilDiv(n, BQ_BATCH_SIZE)
           /\ \A k \in 1..Len(c) : Len(c[k]) >= 1 /\ Len(c[k]) <= BQ_BATCH_SIZE
           /\ n = BQ_BATCH_SIZE + 1 =>
                 (Len(c) = 2 /\ Len(c[1]) = BQ_BATCH_SIZE /\ Len(c[2]) = 1)
           /\ Flatten(c) = ld_rows
           /\ ld_out.table = ld_rows

\* C8 witness: BQ_BATCH_SIZE + 1 rows, with a repeated row, loaded in two commits
C8_Witness ==
    /\ ld_pc = "returned"
    /\ Len(ld_rows) = BQ_BATCH_SIZE + 1
    /\ Len(ld_out.commits) = 2
    /\ ld_rows[1] = ld_rows[2]
    /\ ld_rows[1] # ld_rows[3]

\* C9: no fetch of a page above MAX_PAGES_PER_PERIOD; with the page number
\* above the cap no page is being processed; a period that ended is promoted;
\* a period begins its fetches at page 1.
C9_SafetyCap ==
    /\ \A i \in 1..Len(log) : log[i].page <= MAX_PAGES_PER_PERIOD
    /\ page > MAX_PAGES_PER_PERIOD => pc \notin {"records", "after"}
    /\ pc = "for" => promoted = period
    /\ (pc = "while" /\ log = <<>>) => page = 1

\* C9 witness: a period stopped by the cap has been promoted, rows included
C9_Witness ==
    /\ pc = "for"
    /\ page = MAX_PAGES_PER_PERIOD + 1
    /\ period >= 1
    /\ promoted = period
    /\ final # <<>>
    /\ final = staging

\* C10: after a page is processed, a page number at or above the page count
\* of its response (0 when the response gives none) ends the pagination with
\* the page number as it is, and no page of that period is fetched afterwards.
C10_LastPageStops ==
    /\ [][(pc = "after" /\ page >= Get(data.pagination, "pages", 0)) =>
            (pc' = "flush" /\ page' = page)]_vars
    /\ [][(last_page # "" /\ period' = period) => log' = log]_vars

\* C10 witness: the period ended on the reported last page, a page with
\* records none of which is old
C10_Witness ==
    /\ pc = "flush"
    /\ last_page = "reached"
    /\ page = 2
    /\ ~old_met
    /\ empty_pages = 0

\* the wait after the k-th 429 of a call: min(30 * 1.5^(k-1), 300) seconds
RateLimitWait(k) == Min((Secs(30) * 3 ^ (k - 1)) \div 2 ^ (k - 1), Secs(300))

\* C11: within one call of fetch_fec_page the sleep after the k-th 429 is
\* min(30 * 1.5^(k-1), 300) seconds, k counting the 429 responses of the call
\* only, however many transport or server errors came between them; a call
\* that gets a 429 and then a 200 returns after sleeping exactly 30 seconds.
C11_RateLimitBackoff ==
    /\ f_last.resp = "429" => f_last.wait = RateLimitWait(f_429)
    /\ f_pc = "request" => rate_limit_wait = RateLimitWait(f_429 + 1)
    /\ (f_pc = "returned" /\ f_requests = 2 /\ f_429 = 1) => f_total = Secs(30)

\* the third 429 of a call arrives at its sixth attempt, after three other
\* retried errors, and is followed by a sleep of 67.5 seconds
C11_Witness ==
    /\ f_last.resp = "429"
    /\ f_429 = 3
    /\ f_last.attempt = 6
    /\ f_last.wait = Secs(135) \div 2

\* C12: the filter applies its rules in order.  A missing or unparsable date
\* skips the record; otherwise a date before the cutoff gives the stop signal
\* whatever the amount; otherwise a missing, non-numeric or at-most-125 amount
\* skips the record; otherwise the record is mapped to one output row.  So no
\* record with an amount of 125 or less is put out, and every record dated
\* within the window with an amount above 125 is.
C12_FilterRuleOrder ==
    fl_pc = "done" =>
        LET r == fl_rec
            v == fl_out.verdict
            dated == r.date_kind = "iso"
            inWindow == dated /\ r.date >= six_years_ago
            above == r.amt_kind = "num" /\ r.amt > AMOUNT_FLOOR
        IN  /\ ~dated => v = "skip"
            /\ (dated /\ ~inWindow) => v = "stop"
            /\ (inWindow /\ ~above) => v = "skip"
            /\ (inWindow /\ above) =>
                   /\ v = "row"
                   /\ fl_out.rows = <<[ind_transaction_dt |-> r.date,
                                       ind_transaction_amt |-> r.amt,
                                       ind_tran_id |-> r.id]>>
            /\ v # "row" => fl_out.rows = <<>>
            /\ ~above => fl_out.rows = <<>>

\* a record dated on the cutoff day with an amount of 125.01 is put out
C12_Witness ==
    /\ fl_pc = "done"
    /\ fl_rec.date_kind = "iso"
    /\ fl_rec.date = six_years_ago
    /\ fl_rec.amt_kind = "num"
    /\ fl_rec.amt = AMOUNT_FLOOR + 1
    /\ fl_out.verdict = "row"
    /\ Len(fl_out.rows) = 1

\* C13: promotion is idempotent.  After truncate-then-copy has run twice
\* (PromotionRuns times) in a row, final holds what it held after the first run, which is the content
\* of staging, and staging is what it was before the first run.
C13_PromotionIdempotent ==
    /\ pr_staging = pr_staging0
    /\ pr_runs = PromotionRuns =>
           /\ pr_final = pr_first
           /\ pr_final = pr_staging0

\* promotion has run twice over a staging table of two rows
C13_Witness ==
    /\ pr_pc = "done"
    /\ pr_runs = PromotionRuns
    /\ Len(pr_staging0) = 2
    /\ pr_final = pr_staging0
    /\ pr_first = pr_staging0

\* chunk j (from 1) of a row list
ChunkOf(rows, j) ==
    SubSeq(rows, (j - 1) * BQ_BATCH_SIZE + 1, Min(j * BQ_BATCH_SIZE, Len(rows)))

\* C14: when the commit of chunk k reports row-level errors the loader fails
\* at once: the commits made are exactly chunks 1..k-1, in order, their rows
\* are in the destination and no row of chunk k or of a later chunk is.
C14_LoaderFailsAtFirstError ==
    /\ (ld_pc = "raised") = (ld_pc # "call" /\ ld_err > 0)
    /\ ld_pc = "raised" =>
           /\ ld_out.raised
           /\ Len(ld_out.commits) = ld_err - 1
           /\ \A j \in 1..(ld_err - 1) : ld_out.commits[j] = ChunkOf(ld_rows, j)
           /\ ld_out.table = SubSeq(ld_rows, 1, (ld_err - 1) * BQ_BATCH_SIZE)

\* the second of three chunks fails: the first stays committed, the third
\* is not committed
C14_Witness ==
    /\ ld_pc = "raised"
    /\ ld_err = 2
    /\ NumChunks(ld_rows) = 3
    /\ Len(ld_out.commits) = 1
    /\ Len(ld_out.table) = BQ_BATCH_SIZE

\* C15: one call of fetch_fec_page issues at most retries requests; 429
\* responses, transport errors and 500/502/503 responses use up the same
\* attempt counter; the call returns a payload only after a 200; when every
\* attempt ended in a retried failure the call fails, and with the exhausted
\* error when the last attempt ended in a 429 or a transport error.
C15_RetryCeiling ==
    /\ f_requests <= retries
    /\ f_requests = (IF f_pc = "request" THEN attempt - 1 ELSE attempt)
    /\ f_pc = "returned" => f_last.resp = "200"
    /\ (f_requests = retries /\ f_last.resp # "200") => f_pc = "raised"
    /\ (f_requests = retries /\ f_last.resp \in {"429", "ReadTimeout", "ConnectionError"})
           => f_error = "RuntimeError"
    /\ f_error = "RuntimeError" => f_requests = retries

\* the tenth request of a call that met three 429 responses among other
\* retried failures times out and the call fails with the exhausted error
C15_Witness ==
    /\ f_pc = "raised"
    /\ f_error = "RuntimeError"
    /\ f_requests = retries
    /\ f_429 = 3
    /\ f_last.resp = "ReadTimeout"

\* C16: a 500/502/503 on attempt k below the ceiling is followed by a sleep
\* of 5k seconds and attempt k + 1; a transport error on attempt k below the
\* ceiling by a sleep of 2^k seconds and attempt k + 1; on the last attempt
\* either one makes the call fail without a sleep.
C16_ServerAndTransportBackoff ==
    LET k == f_last.attempt
        server == f_last.resp \in {"500", "502", "503"}
        transport == f_last.resp \in {"ReadTimeout", "ConnectionError"}
    IN  /\ (server /\ k < retries) =>
               /\ f_last.wait = Secs(5 * k)
               /\ f_pc = "request"
               /\ attempt = k + 1
        /\ (transport /\ k < retries) =>
               /\ f_last.wait = Secs(2 ^ k)
               /\ f_pc = "request"
               /\ attempt = k + 1
        /\ ((server \/ transport) /\ k = retries) =>
               /\ f_last.wait = 0
               /\ f_pc = "raised"

\* a 502 on the third attempt is followed by a sleep of 15 seconds and a
\* fourth attempt
C16_Witness ==
    /\ f_last = [attempt |-> 3, resp |-> "502", wait |-> Secs(15)]
    /\ f_pc = "request"
    /\ attempt = 4

\* C17: any other HTTP status, and any exception that is neither an HTTP
\* nor a transport error, makes the call fail at once whatever the attempt:
\* no sleep, the exception is re-raised, and no request follows.
C17_OtherErrorsFailAtOnce ==
    /\ [](f_last.resp \in {"400", "404", "Exception"} =>
             /\ f_pc = "raised"
             /\ f_last.wait = 0
             /\ f_requests = f_last.attempt
             /\ f_error = (IF f_last.resp = "Exception" THEN "Exception" ELSE "HTTPError"))
    /\ [][f_pc = "request"]_fVars

\* a 404 on the fourth attempt, after three retried failures, ends the call
C17_Witness ==
    /\ f_last = [attempt |-> 4, resp |-> "404", wait |-> 0]
    /\ f_pc = "raised"
    /\ f_error = "HTTPError"
    /\ f_total > 0

\* C18: in every reachable state of a run batch_buffer holds at most
\* BATCH_INSERT_SIZE rows, and every call of insert_bq_rows the run has made
\* carried at most BATCH_INSERT_SIZE rows, fewer than BQ_BATCH_SIZE, and so
\* was committed as a single chunk.
C18_BufferBounded ==
    /\ Len(batch_buffer) <= BATCH_INSERT_SIZE
    /\ calls_ok
    /\ BATCH_INSERT_SIZE < BQ_BATCH_SIZE

\* the buffer was flushed when it reached BATCH_INSERT_SIZE rows and holds
\* one more row since
C18_Witness ==
    /\ Len(staging) = BATCH_INSERT_SIZE
    /\ total_rows_inserted = BATCH_INSERT_SIZE
    /\ Len(batch_buffer) = 1
    /\ calls_ok

\* the positions of a run that has not ended
RunningPcs ==
    {"start", "clear_final", "for", "while", "records", "after", "flush",
     "truncate_final", "copy_final"}

\* C19: whatever the API answers, a run that has ended has either returned
\* its status after the last of the NumCycles periods or failed with a load
\* error.
C19_RunEndsInStatusOrLoadError ==
    pc \notin RunningPcs =>
        \/ (pc = "done" /\ status # NoStatus /\ period = NumCycles)
        \/ (pc = "failed" /\ load_error)

\* C20: a failed page fetch changes the page number, by one, and nothing
\* else of the run: the empty-page counter is neither incremented nor reset,
\* the buffer, staging, final and the collected and inserted counters are
\* unchanged, and no stop check is made for the page (no empty or processed
\* page is recorded, no old data, no last page, the loop goes on).
C20_FailedFetchFrame ==
    [][FetchFailureStep =>
          /\ page' = page + 1
          /\ empty_pages' = empty_pages
          /\ batch_buffer' = batch_buffer
          /\ staging' = staging
          /\ final' = final
          /\ total_rows_collected' = total_rows_collected
          /\ total_rows_inserted' = total_rows_inserted
          /\ seen_transaction_ids' = seen_transaction_ids
          /\ ok_tail' = ok_tail
          /\ old_met' = old_met
          /\ last_page' = last_page
          /\ period' = period
          /\ pc' = "while"]_vars

\* a fetch failed right after an empty page, with one row waiting in the
\* buffer: the counter still reads one
C20_Witness ==
    /\ pc = "while"
    /\ Len(log) = 2
    /\ log[1].out = "empty"
    /\ log[2].out = "fail"
    /\ page = log[2].page + 1
    /\ empty_pages = 1
    /\ Len(batch_buffer) = 1

====
